---- MODULE Spec2Model ----
(***************************************************************************)
(* A model of maciejmar/rag_classifier: the text chunker, the indexer that *)
(* turns chunks into vector records, the retriever, and the linear         *)
(* retrieve -> generate -> classify pipeline with its HTTP callers.        *)
(*                                                                         *)
(* Strings are sequences of one-character strings, so that slicing,        *)
(* trimming and exact comparison are computed and not assumed.             *)
(***************************************************************************)
EXTENDS Integers, Sequences, FiniteSets, TLC

(***************************************************************************)
(* Bounds of the model.                                                    *)
(***************************************************************************)
\* longest text handed to the chunker in SplitSpec
MaxTextLen == 4
\* largest chunk_size / overlap argument tried in SplitSpec
MaxParam == 3
\* uploads accepted in one run of IndexSpec
MaxUploads == 2
\* documents already indexed when Spec starts
MaxIndexed == 2
\* re-runs of the indexing of an already indexed document
MaxReindex == 1
\* calls of generate_report
MaxInvocations == 1
\* config.py settings, read from the environment; small configured values
settings_chunk_size == 3
settings_chunk_overlap == 1
settings_top_k == 2

(***************************************************************************)
(* State.                                                                  *)
(***************************************************************************)
VARIABLES
    \* one call of the chunker (SplitSpec)
    s_pc,          \* "call", "loop", "returned", "raised"
    s_text,        \* argument text
    s_chunk_size,  \* argument chunk_size
    s_overlap,     \* argument overlap
    s_start,       \* local start
    s_chunks,      \* local chunks
    s_error,       \* message of the ValueError raised, "" if none
    \* one call of classify_node (ClassifySpec)
    c_pc,          \* "call", "returned"
    c_state,       \* the RAGState passed in
    c_update,      \* the dict returned
    \* the service (Spec)
    documents,     \* rows of the documents table
    files,         \* storage path -> bytes of the stored upload
    next_id,       \* next value of the documents id sequence
    ops,           \* document id -> the indexing request running for it
    collection,    \* whether the qdrant collection exists
    store,         \* the collection: point id -> point
    written_by,    \* history: point id -> the (user, document) that last wrote it
    indexed_ids,   \* history: document id -> ids its last finished indexing wrote
    last_commit,   \* history: document id of the last upsert, 0 if none
    n_reindex,     \* indexing re-runs so far
    p_pc,          \* "idle", a node of the graph, "END" or "FAILED"
    p_state,       \* the RAGState of the running invocation
    p_trace,       \* history: nodes run by the invocation, in order
    p_raised,      \* the collaborator whose exception aborted the invocation
    p_search_failed, \* history: the search call of this invocation raised
    p_hits,        \* history: the (user, document) behind each chunk retrieved
    p_response,    \* what generate_report last gave its caller
    reports,       \* rows of the reports table
    n_inv          \* calls of generate_report so far

svars == <<s_pc, s_text, s_chunk_size, s_overlap, s_start, s_chunks, s_error>>
cvars == <<c_pc, c_state, c_update>>
ivars == <<documents, files, next_id, ops, collection, store, written_by,
           indexed_ids, last_commit, n_reindex>>
pvars == <<p_pc, p_state, p_trace, p_raised, p_search_failed, p_hits,
           p_response, reports, n_inv>>
vars == <<svars, cvars, ivars, pvars>>

(***************************************************************************)
(* The scenario of tests/test_smoke.py: "A" * 1200, chunk_size 500,        *)
(* overlap 100.                                                            *)
(***************************************************************************)
ScenarioLen == 1200
ScenarioChunkSize == 500
ScenarioOverlap == 100

(***************************************************************************)
(* Strings.                                                                *)
(***************************************************************************)
Chars == {"A", " "}
Whitespace == {" "}

Min(S) == CHOOSE x \in S : \A y \in S : x <= y
Max(S) == CHOOSE x \in S : \A y \in S : x >= y

\* all strings over Chars of length at most n
StringsUpTo(n) == UNION {[1..k -> Chars] : k \in 0..n}

\* str.strip(): drop leading and trailing whitespace
strip(s) ==
    LET keep == {i \in 1..Len(s) : s[i] \notin Whitespace}
    IN  IF keep = {} THEN <<>> ELSE SubSeq(s, Min(keep), Max(keep))

\* Python s[a:b] for integers a, b (negative offsets count from the end)
Slice(s, a, b) ==
    LET n  == Len(s)
        lo == IF a < 0 THEN Max({a + n, 0}) ELSE Min({a, n})
        hi == IF b < 0 THEN Max({b + n, 0}) ELSE Min({b, n})
    IN  IF lo >= hi THEN <<>> ELSE SubSeq(s, lo + 1, hi)

(***************************************************************************)
(* rag.py _split_text.  SplitCheck is the code before the loop, SplitStep  *)
(* one iteration of the while loop, _split_text the whole call.            *)
(***************************************************************************)
\* lines 20-27: "empty", an error message, or "ok"
SplitCheck(text, chunk_size, overlap) ==
    IF strip(text) = <<>> THEN "empty"
    ELSE IF chunk_size <= 0 THEN "chunk_size must be > 0"
    ELSE IF overlap < 0 THEN "overlap must be >= 0"
    ELSE IF overlap >= chunk_size THEN "overlap must be smaller than chunk_size"
    ELSE "ok"

SplitErrors == {"chunk_size must be > 0", "overlap must be >= 0",
                "overlap must be smaller than chunk_size"}

\* SplitStep without the test `if chunk:` of line 35
SplitStep_keep_empty(text, chunk_size, overlap, start, chunks) ==
    LET text_len == Len(text)
        end      == Min({start + chunk_size, text_len})
        out      == Append(chunks, strip(Slice(text, start, end)))
    IN  IF ~(start < text_len)
        THEN [start |-> start, end |-> start, chunks |-> chunks, done |-> TRUE]
        ELSE IF end >= text_len
        THEN [start |-> start, end |-> end, chunks |-> out, done |-> TRUE]
        ELSE [start |-> end - overlap, end |-> end, chunks |-> out, done |-> FALSE]

\* SplitStep with line 39 as `start = end`
SplitStep_no_overlap(text, chunk_size, overlap, start, chunks) ==
    LET text_len == Len(text)
        end      == Min({start + chunk_size, text_len})
        chunk    == strip(Slice(text, start, end))
        out      == IF chunk # <<>> THEN Append(chunks, chunk) ELSE chunks
    IN  IF ~(start < text_len)
        THEN [start |-> start, end |-> start, chunks |-> chunks, done |-> TRUE]
        ELSE IF end >= text_len
        THEN [start |-> start, end |-> end, chunks |-> out, done |-> TRUE]
        ELSE [start |-> end, end |-> end, chunks |-> out, done |-> FALSE]

\* SplitStep with line 39 as `start = end - chunk_size`
SplitStep_no_advance(text, chunk_size, overlap, start, chunks) ==
    LET text_len == Len(text)
        end      == Min({start + chunk_size, text_len})
        chunk    == strip(Slice(text, start, end))
        out      == IF chunk # <<>> THEN Append(chunks, chunk) ELSE chunks
    IN  IF ~(start < text_len)
        THEN [start |-> start, end |-> start, chunks |-> chunks, done |-> TRUE]
        ELSE IF end >= text_len
        THEN [start |-> start, end |-> end, chunks |-> out, done |-> TRUE]
        ELSE [start |-> end - chunk_size, end |-> end, chunks |-> out,
              done |-> FALSE]

\* lines 32-39: one pass of the loop from offset start with the chunks so far
SplitStep(text, chunk_size, overlap, start, chunks) ==
    LET text_len == Len(text)
    IN  IF ~(start < text_len)
        THEN [start |-> start, end |-> start, chunks |-> chunks, done |-> TRUE]
        ELSE LET end   == Min({start + chunk_size, text_len})
                 chunk == strip(Slice(text, start, end))
                 out   == IF chunk # <<>> THEN Append(chunks, chunk) ELSE chunks
             IN  IF end >= text_len
                 THEN [start |-> start, end |-> end, chunks |-> out, done |-> TRUE]
                 ELSE [start |-> end - overlap, end |-> end, chunks |-> out,
                       done |-> FALSE]

RECURSIVE SplitLoop(_, _, _, _, _)
SplitLoop(text, chunk_size, overlap, start, chunks) ==
    LET r == SplitStep(text, chunk_size, overlap, start, chunks)
    IN  IF r.done THEN r.chunks
        ELSE SplitLoop(text, chunk_size, overlap, r.start, r.chunks)

\* the call as a whole: [raised |-> message] or [raised |-> "", chunks |-> ...]
_split_text(text, chunk_size, overlap) ==
    LET c == SplitCheck(text, chunk_size, overlap)
    IN  IF c = "empty" THEN [raised |-> "", chunks |-> <<>>]
        ELSE IF c # "ok" THEN [raised |-> c, chunks |-> <<>>]
        ELSE [raised |-> "", chunks |-> SplitLoop(text, chunk_size, overlap, 0, <<>>)]

(***************************************************************************)
(* The indexer: rag.py _embed, _iter_points, build_index.                  *)
(***************************************************************************)
\* registered users (tenants)
Users == {1, 2}

\* file names a client may send; all lower case
FileTxt == <<"r", ".", "t", "x", "t">>
FileMd  == <<"s", ".", "m", "d">>
FileExe == <<"x", ".", "e", "x", "e">>
Filenames == {FileTxt, FileMd, FileExe}

\* the uploads clients send: who, under which name, with which content
Uploads ==
    {[user |-> 1, name |-> FileTxt, bytes |-> <<"A", " ", "A">>],
     [user |-> 2, name |-> FileTxt, bytes |-> <<"A", "A", "A", "A">>],
     [user |-> 1, name |-> FileMd,  bytes |-> <<"A", "A", "A", "A">>],
     [user |-> 2, name |-> FileMd,  bytes |-> <<>>],
     [user |-> 1, name |-> FileExe, bytes |-> <<"A", " ", "A">>]}

ALLOWED_EXTENSIONS ==
    {<<".", "t", "x", "t">>, <<".", "m", "d">>, <<".", "p", "d", "f">>,
     <<".", "x", "l", "s", "x">>}

\* Path(name).suffix: from the last dot on, "" without a dot or for a leading dot
Suffix(name) ==
    LET dots == {i \in 2..Len(name) : name[i] = "."}
    IN  IF dots = {} THEN <<>> ELSE SubSeq(name, Max(dots), Len(name))

\* parsers.py extract_text_for_file for .txt and .md: the bytes as text
extract_text_for_file(name, bytes) == bytes

\* str(n) for n >= 0
RECURSIVE Digits(_)
Digits(n) ==
    LET d == <<"0", "1", "2", "3", "4", "5", "6", "7", "8", "9">>
    IN  IF n < 10 THEN <<d[n + 1]>> ELSE Digits(n \div 10) \o <<d[(n % 10) + 1]>>

\* the vector the embedding model gives a text: (letters, blanks)
Count(s, c) == Cardinality({i \in 1..Len(s) : s[i] = c})
_embed(text) == <<Count(text, "A"), Count(text, " ")>>

\* uuid5(NAMESPACE_URL, name): a hash of the name, taken as collision free
\* a fresh id on every run, as uuid4() would give
uuid4(ns, name) == <<"uuid4", ns, name, n_reindex>>
uuid5(ns, name) == <<"uuid5", ns, name>>

\* rag.py 74-82: the point of chunk idx (from 0) of source
PointOf(source, idx, part) ==
    [id      |-> uuid5("NAMESPACE_URL", source \o <<":">> \o Digits(idx)),
     vector  |-> _embed(part),
     payload |-> [source |-> source, text |-> part]]

\* rag.py 64-82 for docs, a sequence of <<source, text>>; chunking may raise
RECURSIVE _iter_points(_, _, _)
_iter_points(docs, chunk_size, overlap) ==
    IF docs = <<>> THEN [raised |-> "", points |-> <<>>]
    ELSE LET source == docs[1][1]
             sp     == _split_text(docs[1][2], chunk_size, overlap)
             rest   == _iter_points(Tail(docs), chunk_size, overlap)
         IN  IF sp.raised # "" THEN [raised |-> sp.raised, points |-> <<>>]
             ELSE IF rest.raised # "" THEN rest
             ELSE [raised |-> "",
                   points |-> [i \in 1..Len(sp.chunks) |->
                                  PointOf(source, i - 1, sp.chunks[i])]
                              \o rest.points]

PointIds(points) == {points[i].id : i \in 1..Len(points)}

\* qdrant upsert: every point replaces the record of the same id
Upsert(st, points) ==
    [i \in DOMAIN st \cup PointIds(points) |->
        IF i \in PointIds(points)
        THEN points[Max({k \in 1..Len(points) : points[k].id = i})]
        ELSE st[i]]

\* history kept beside the collection: who wrote each point last
Owners(wb, points, u, d) ==
    [i \in DOMAIN wb \cup PointIds(points) |->
        IF i \in PointIds(points) THEN [user_id |-> u, document_id |-> d]
        ELSE wb[i]]

(***************************************************************************)
(* The retriever: rag.py retrieve, and qdrant's cosine search.             *)
(***************************************************************************)
Dot(a, b) == a[1] * b[1] + a[2] * b[2]

\* cosine(a, q) >= cosine(b, q) for vectors with no negative component
AtLeastAsNear(a, b, q) ==
    Dot(a, q) * Dot(a, q) * Dot(b, b) >= Dot(b, q) * Dot(b, q) * Dot(a, a)

\* the rankings a search may return: `limit` nearest ids, nearest first
Search(st, qv, limit) ==
    LET n == Min({limit, Cardinality(DOMAIN st)})
    IN  {h \in [1..n -> DOMAIN st] :
            /\ \A i, j \in 1..n : i # j => h[i] # h[j]
            /\ \A i, j \in 1..n :
                  i < j => AtLeastAsNear(st[h[i]].vector, st[h[j]].vector, qv)
            /\ \A x \in DOMAIN st \ {h[i] : i \in 1..n} :
                  \A i \in 1..n : AtLeastAsNear(st[h[i]].vector, st[x].vector, qv)}

RECURSIVE SelectSeq2(_, _)
\* rag.py 138-145: hits with a text and a source become chunks, in order
ChunksOf(hits, st) ==
    LET ok(i) == {"text", "source"} \subseteq DOMAIN st[hits[i]].payload
        keep == {i \in 1..Len(hits) : ok(i)}
    IN  SelectSeq2([i \in 1..Len(hits) |->
                       IF i \in keep
                       THEN <<[source |-> st[hits[i]].payload.source,
                               text   |-> st[hits[i]].payload.text]>>
                       ELSE <<>>], 1)
SelectSeq2(parts, i) ==
    IF i > Len(parts) THEN <<>> ELSE parts[i] \o SelectSeq2(parts, i + 1)

(***************************************************************************)
(* The pipeline: graph.py.                                                 *)
(***************************************************************************)
BRAK_DANYCH == <<"B", "R", "A", "K", "_", "D", "A", "N", "Y", "C", "H">>
brak_danych == <<"b", "r", "a", "k", "_", "d", "a", "n", "y", "c", "h">>

\* questions asked (AskRequest: at least 3 characters)
Questions == {<<"A", "A", "A">>, <<"A", " ", "A">>}

\* message contents the chat model may return
ChatContents == {BRAK_DANYCH, BRAK_DANYCH \o <<" ">>, brak_danych, <<"A">>}

\* dict.get(key, default)
Get(d, key, default) == IF key \in DOMAIN d THEN d[key] ELSE default

\* langgraph merges the dict a node returns into the state
Merge(state, update) == update @@ state

\* graph.py 72-74: set_entry_point and add_edge
entry_point == "retrieve"
\* the edges with retrieve wired to classify
graph_edges_skip == [retrieve |-> "classify", generate |-> "classify", classify |-> "END"]
graph_edges == [retrieve |-> "generate", generate |-> "classify", classify |-> "END"]

\* retrieve with the search call outside any try
retrieve_no_except(st, embed_raises, search_raises, hits) ==
    IF embed_raises THEN [raised |-> "embed", chunks |-> <<>>]
    ELSE IF search_raises THEN [raised |-> "search", chunks |-> <<>>]
    ELSE [raised |-> "", chunks |-> ChunksOf(hits, st)]

\* rag.py 127-145: what retrieve does, given what its collaborators do.  The
\* user_id that graph.py hands over is no parameter of the search: rag.py's
\* retrieve neither takes nor uses it.
retrieve(st, embed_raises, search_raises, hits) ==
    IF embed_raises THEN [raised |-> "embed", chunks |-> <<>>]
    ELSE IF search_raises THEN [raised |-> "", chunks |-> <<>>]
    ELSE [raised |-> "", chunks |-> ChunksOf(hits, st)]

\* graph.py 39-55: what generate_node returns, given what the chat call does
generate_node(state, chat_raises, content) ==
    IF chat_raises THEN [raised |-> "chat", update |-> <<>>]
    ELSE [raised |-> "", update |-> [answer |-> strip(content)]]

\* classify_node comparing the trimmed answer
classify_node_strip(state) ==
    [label |-> IF strip(Get(state, "answer", <<>>)) = BRAK_DANYCH
               THEN "NO_ANSWER" ELSE "ANSWERED"]

\* graph.py 58-60
classify_node(state) ==
    [label |-> IF Get(state, "answer", <<>>) = BRAK_DANYCH
               THEN "NO_ANSWER" ELSE "ANSWERED"]

\* list(dict.fromkeys(xs)): first occurrences, in order
RECURSIVE Unique(_)
Unique(xs) ==
    IF xs = <<>> THEN <<>>
    ELSE LET init == Unique(SubSeq(xs, 1, Len(xs) - 1))
             x    == xs[Len(xs)]
         IN  IF \E i \in 1..Len(init) : init[i] = x THEN init ELSE Append(init, x)

\* main.py 188-211: the report row written and the response for a result of
\* graph.invoke, absent fields replaced by the defaults of lines 188-190
generate_report_fallback(result, raised, user_id, question, id, inv) ==
    LET retrieved == Get(result, "retrieved", <<>>)
        body == [answer  |-> Get(result, "answer", BRAK_DANYCH),
                 label   |-> Get(result, "label", "NO_ANSWER"),
                 sources |-> Unique([i \in 1..Len(retrieved) |-> retrieved[i].source])]
    IN  [rows |-> {[id |-> id, inv |-> inv, user_id |-> user_id,
                    question |-> question, answer |-> body.answer,
                    label |-> body.label, sources |-> body.sources]},
         response |-> [inv |-> inv, status |-> 200, body |-> body]]

\* main.py 187-211: when graph.invoke raised, the exception leaves the handler
\* and nothing is written
generate_report(result, raised, user_id, question, id, inv) ==
    IF raised # ""
    THEN [rows |-> {}, response |-> [inv |-> inv, status |-> 500, body |-> <<>>]]
    ELSE generate_report_fallback(result, raised, user_id, question, id, inv)

(***************************************************************************)
(* Values of the variables a specification does not use.                   *)
(***************************************************************************)
SplitIdle ==
    /\ s_pc = "idle" /\ s_text = <<>> /\ s_chunk_size = 0 /\ s_overlap = 0
    /\ s_start = 0 /\ s_chunks = <<>> /\ s_error = ""

ClassifyIdle == c_pc = "idle" /\ c_state = <<>> /\ c_update = <<>>

IndexInit ==
    /\ documents = {} /\ files = {} /\ next_id = 1 /\ ops = <<>>
    /\ collection = FALSE /\ store = <<>> /\ written_by = <<>>
    /\ indexed_ids = <<>> /\ last_commit = 0 /\ n_reindex = 0

PipelineInit ==
    /\ p_pc = "idle" /\ p_state = <<>> /\ p_trace = <<>> /\ p_raised = ""
    /\ p_search_failed = FALSE /\ p_hits = <<>>
    /\ p_response = [inv |-> 0, status |-> 0, body |-> <<>>]
    /\ reports = {} /\ n_inv = 0

(***************************************************************************)
(* SplitSpec: one call of the chunker, step by step.                       *)
(***************************************************************************)
ScenarioText == [i \in 1..ScenarioLen |-> "A"]

SplitInit ==
    /\ s_pc = "call"
    /\ \/ /\ s_text \in StringsUpTo(MaxTextLen)
          /\ s_chunk_size \in -1..MaxParam
          /\ s_overlap \in -1..MaxParam
       \/ /\ s_text = ScenarioText
          /\ s_chunk_size = ScenarioChunkSize
          /\ s_overlap = ScenarioOverlap
    /\ s_start = 0
    /\ s_chunks = <<>>
    /\ s_error = ""
    /\ ClassifyIdle /\ IndexInit /\ PipelineInit

\* lines 20-30: the checks, then either return [], raise, or enter the loop
SplitCall ==
    /\ s_pc = "call"
    /\ LET c == SplitCheck(s_text, s_chunk_size, s_overlap)
       IN  /\ s_pc' = IF c = "empty" THEN "returned"
                      ELSE IF c = "ok" THEN "loop" ELSE "raised"
           /\ s_error' = IF c \in SplitErrors THEN c ELSE ""
    /\ s_start' = 0
    /\ s_chunks' = <<>>
    /\ UNCHANGED <<s_text, s_chunk_size, s_overlap, cvars, ivars, pvars>>

\* lines 32-40: one iteration; the break (or a false loop test) returns
SplitIter ==
    /\ s_pc = "loop"
    /\ LET r == SplitStep(s_text, s_chunk_size, s_overlap, s_start, s_chunks)
       IN  /\ s_start' = r.start
           /\ s_chunks' = r.chunks
           /\ s_pc' = IF r.done THEN "returned" ELSE "loop"
    /\ UNCHANGED <<s_text, s_chunk_size, s_overlap, s_error, cvars, ivars, pvars>>

SplitNext == SplitCall \/ SplitIter

SplitSpec == SplitInit /\ [][SplitNext]_vars

\* the calls of SplitInit on the short texts, without the 1200 characters
SplitShortInit ==
    /\ s_pc = "call"
    /\ s_text \in StringsUpTo(MaxTextLen)
    /\ s_chunk_size \in -1..MaxParam
    /\ s_overlap \in -1..MaxParam
    /\ s_start = 0
    /\ s_chunks = <<>>
    /\ s_error = ""
    /\ ClassifyIdle /\ IndexInit /\ PipelineInit

\* a call that has started runs on: the interpreter executes the next statement
SplitFairSpec ==
    SplitShortInit /\ [][SplitNext]_vars /\ WF_vars(SplitCall) /\ WF_vars(SplitIter)

(***************************************************************************)
(* ClassifySpec: one call of classify_node on any state.                   *)
(***************************************************************************)
Prefixes(s) == {SubSeq(s, 1, k) : k \in 0..Len(s)}

AnswerStrings ==
    Prefixes(BRAK_DANYCH)
    \cup {BRAK_DANYCH \o <<" ">>, <<" ">> \o BRAK_DANYCH, BRAK_DANYCH \o <<".">>,
          brak_danych, <<"A">>}

SomeChunk == [source |-> FileTxt, text |-> <<"A">>]
RetrievedLists == {<<>>, <<SomeChunk>>, <<SomeChunk, SomeChunk>>}

ClassifyInputs ==
    [user_id : Users, question : Questions]
    \cup [user_id : Users, question : Questions, retrieved : RetrievedLists]
    \cup [user_id : Users, question : Questions, answer : AnswerStrings]
    \cup [user_id : Users, question : Questions, retrieved : RetrievedLists,
          answer : AnswerStrings]

ClassifyInit ==
    /\ c_pc = "call"
    /\ c_state \in ClassifyInputs
    /\ c_update = <<>>
    /\ SplitIdle /\ IndexInit /\ PipelineInit

ClassifyCall ==
    /\ c_pc = "call"
    /\ c_update' = classify_node(c_state)
    /\ c_pc' = "returned"
    /\ UNCHANGED <<c_state, svars, ivars, pvars>>

ClassifyNext == ClassifyCall

ClassifySpec == ClassifyInit /\ [][ClassifyNext]_vars

(***************************************************************************)
(* IndexSpec: uploads are indexed concurrently, and indexed again.         *)
(***************************************************************************)
IndexSpecInit == SplitIdle /\ ClassifyIdle /\ IndexInit /\ PipelineInit

FileBytes(path) == (CHOOSE f \in files : f.path = path).bytes

DocumentRow(d, up, path) ==
    [id |-> d, user_id |-> up.user, original_filename |-> up.name,
     storage_path |-> path]

\* main.py 116-118: an upload with an extension that is not allowed is refused
upload_rejected(up) ==
    /\ Suffix(up.name) \notin ALLOWED_EXTENSIONS
    /\ UNCHANGED vars

\* main.py 116-136: the file is stored and the document row committed
upload_document(up) ==
    /\ next_id <= MaxUploads
    /\ Suffix(up.name) \in ALLOWED_EXTENSIONS
    /\ LET path == <<up.user, next_id>>
       IN  /\ files' = files \cup {[path |-> path, bytes |-> up.bytes]}
           /\ documents' = documents \cup {DocumentRow(next_id, up, path)}
           /\ ops' = Append(ops, [kind |-> "upload", pc |-> "index",
                                  user_id |-> up.user, source |-> up.name,
                                  path |-> path, points |-> <<>>,
                                  result |-> [status |-> 0, chunks_indexed |-> 0]])
    /\ next_id' = next_id + 1
    /\ UNCHANGED <<collection, store, written_by, indexed_ids, last_commit,
                   n_reindex, svars, cvars, pvars>>

\* main.py 152-157: the upload's handler undoes its row and its file; a re-run
\* of the indexing has no such handler
Failed(d) ==
    /\ ops' = [ops EXCEPT ![d].pc = "failed",
                          ![d].result = [status |-> 400, chunks_indexed |-> 0]]
    /\ IF ops[d].kind = "upload"
       THEN /\ documents' = {r \in documents : r.id # d}
            /\ files' = {f \in files : f.path # ops[d].path}
       ELSE UNCHANGED <<documents, files>>

\* the points of one document: main.py 139-151 handing (source, text) to the
\* indexer of rag.py 64-82
DocumentPoints(source, bytes) ==
    _iter_points(<< <<source, extract_text_for_file(source, bytes)>> >>,
                settings_chunk_size, settings_chunk_overlap)

\* main.py 139-151 with rag.py 95-106: the text is extracted, chunked and every
\* chunk embedded; no chunk, no call and a count of 0
index_points(d) ==
    /\ d \in DOMAIN ops
    /\ ops[d].pc = "index"
    /\ LET o  == ops[d]
           ip == DocumentPoints(o.source, FileBytes(o.path))
       IN  \E embed_raises \in BOOLEAN :
              IF ip.raised # "" \/ (embed_raises /\ ip.points # <<>>)
              THEN Failed(d)
              ELSE /\ ops' = [ops EXCEPT
                                 ![d].pc = IF ip.points = <<>> THEN "done" ELSE "upsert",
                                 ![d].points = ip.points,
                                 ![d].result = IF ip.points = <<>>
                                               THEN [status |-> 200, chunks_indexed |-> 0]
                                               ELSE @]
                   /\ UNCHANGED <<documents, files>>
    /\ UNCHANGED <<next_id, collection, store, written_by, indexed_ids, last_commit,
                   n_reindex, svars, cvars, pvars>>

\* rag.py 108-115: the collection is created if missing, then one upsert
index_upsert(d) ==
    /\ d \in DOMAIN ops
    /\ ops[d].pc = "upsert"
    /\ \E outcome \in {"ok", "create raises", "upsert raises"} :
          LET o == ops[d]
          IN  IF outcome = "ok"
              THEN /\ collection' = TRUE
                   /\ store' = Upsert(store, o.points)
                   /\ written_by' = Owners(written_by, o.points, o.user_id, d)
                   /\ indexed_ids' = (d :> PointIds(o.points)) @@ indexed_ids
                   /\ last_commit' = d
                   /\ ops' = [ops EXCEPT
                                 ![d].pc = "done",
                                 ![d].result = [status |-> 200,
                                                chunks_indexed |-> Len(o.points)]]
                   /\ UNCHANGED <<documents, files>>
              ELSE /\ collection' = (collection \/ outcome = "upsert raises")
                   /\ Failed(d)
                   /\ UNCHANGED <<store, written_by, indexed_ids, last_commit>>
    /\ UNCHANGED <<next_id, n_reindex, svars, cvars, pvars>>

\* the indexing of a document is run again with the same arguments
reindex(d) ==
    /\ d \in DOMAIN ops
    /\ ops[d].pc = "done"
    /\ n_reindex < MaxReindex
    /\ ops' = [ops EXCEPT ![d].pc = "index", ![d].kind = "reindex",
                          ![d].points = <<>>]
    /\ n_reindex' = n_reindex + 1
    /\ UNCHANGED <<documents, files, next_id, collection, store, written_by,
                   indexed_ids, last_commit, svars, cvars, pvars>>

IndexNext ==
    \/ \E up \in Uploads : upload_rejected(up)
    \/ \E up \in Uploads : upload_document(up)
    \/ \E d \in 1..MaxUploads : index_points(d)
    \/ \E d \in 1..MaxUploads : index_upsert(d)
    \/ \E d \in 1..MaxUploads : reindex(d)

IndexSpec == IndexSpecInit /\ [][IndexNext]_vars

(***************************************************************************)
(* Spec: reports are generated over an index built by earlier uploads.     *)
(***************************************************************************)
AcceptedUploads == {up \in Uploads : Suffix(up.name) \in ALLOWED_EXTENSIONS}

\* the state IndexSpec reaches when the uploads ups are indexed one after another
RECURSIVE IndexedState(_)
IndexedState(ups) ==
    IF ups = <<>>
    THEN [documents |-> {}, files |-> {}, ops |-> <<>>, collection |-> FALSE,
          store |-> <<>>, written_by |-> <<>>, indexed_ids |-> <<>>,
          last_commit |-> 0]
    ELSE LET prev == IndexedState(SubSeq(ups, 1, Len(ups) - 1))
             d    == Len(ups)
             up   == ups[d]
             path == <<up.user, d>>
             pts  == DocumentPoints(up.name, up.bytes).points
         IN  [documents |-> prev.documents \cup {DocumentRow(d, up, path)},
              files |-> prev.files \cup {[path |-> path, bytes |-> up.bytes]},
              ops |-> Append(prev.ops,
                        [kind |-> "upload", pc |-> "done", user_id |-> up.user,
                         source |-> up.name, path |-> path, points |-> pts,
                         result |-> [status |-> 200, chunks_indexed |-> Len(pts)]]),
              collection |-> (prev.collection \/ pts # <<>>),
              store |-> Upsert(prev.store, pts),
              written_by |-> Owners(prev.written_by, pts, up.user, d),
              indexed_ids |-> IF pts = <<>> THEN prev.indexed_ids
                              ELSE (d :> PointIds(pts)) @@ prev.indexed_ids,
              last_commit |-> IF pts = <<>> THEN prev.last_commit ELSE d]

Init ==
    /\ SplitIdle /\ ClassifyIdle /\ PipelineInit
    /\ \E n \in 0..MaxIndexed : \E ups \in [1..n -> AcceptedUploads] :
          LET x == IndexedState(ups)
          IN  /\ documents = x.documents /\ files = x.files
              /\ next_id = Len(ups) + 1 /\ ops = x.ops
              /\ collection = x.collection /\ store = x.store
              /\ written_by = x.written_by /\ indexed_ids = x.indexed_ids
              /\ last_commit = x.last_commit /\ n_reindex = 0

\* main.py 187: graph.invoke({"user_id": ..., "question": ...})
invoke(u, q) ==
    /\ p_pc = "idle"
    /\ n_inv < MaxInvocations
    /\ n_inv' = n_inv + 1
    /\ p_pc' = entry_point
    /\ p_state' = [user_id |-> u, question |-> q]
    /\ p_trace' = <<>>
    /\ p_raised' = ""
    /\ p_search_failed' = FALSE
    /\ p_hits' = <<>>
    /\ UNCHANGED <<p_response, reports, svars, cvars, ivars>>

\* graph.py 21-36 with rag.py 118-145
run_retrieve ==
    /\ p_pc = "retrieve"
    /\ \E embed_raises \in BOOLEAN :
       \E search_raises \in (IF collection THEN BOOLEAN ELSE {TRUE}) :
       \E hits \in (IF embed_raises \/ search_raises THEN {<<>>}
                    ELSE Search(store, _embed(p_state.question), settings_top_k)) :
          LET r == retrieve(store, embed_raises, search_raises, hits)
          IN  /\ p_trace' = Append(p_trace, "retrieve")
              /\ p_raised' = r.raised
              /\ p_search_failed' = (~embed_raises /\ search_raises)
              /\ IF r.raised # ""
                 THEN /\ p_pc' = "FAILED"
                      /\ UNCHANGED <<p_state, p_hits>>
                 ELSE /\ p_pc' = graph_edges["retrieve"]
                      /\ p_state' = Merge(p_state, [retrieved |-> r.chunks])
                      /\ p_hits' = [i \in 1..Len(hits) |-> written_by[hits[i]]]
    /\ UNCHANGED <<p_response, reports, n_inv, svars, cvars, ivars>>

\* graph.py 39-55
run_generate ==
    /\ p_pc = "generate"
    /\ \E chat_raises \in BOOLEAN, content \in ChatContents :
          LET r == generate_node(p_state, chat_raises, content)
          IN  /\ p_trace' = Append(p_trace, "generate")
              /\ p_raised' = r.raised
              /\ IF r.raised # ""
                 THEN p_pc' = "FAILED" /\ UNCHANGED p_state
                 ELSE /\ p_pc' = graph_edges["generate"]
                      /\ p_state' = Merge(p_state, r.update)
    /\ UNCHANGED <<p_search_failed, p_hits, p_response, reports, n_inv,
                   svars, cvars, ivars>>

\* graph.py 58-60
run_classify ==
    /\ p_pc = "classify"
    /\ p_trace' = Append(p_trace, "classify")
    /\ p_state' = Merge(p_state, classify_node(p_state))
    /\ p_pc' = graph_edges["classify"]
    /\ UNCHANGED <<p_raised, p_search_failed, p_hits, p_response, reports, n_inv,
                   svars, cvars, ivars>>

\* main.py 188-211, or the exception of graph.invoke leaving the handler; the
\* state of the invocation is dropped
report ==
    /\ p_pc \in {"END", "FAILED"}
    /\ LET g == generate_report(p_state, p_raised, p_state.user_id,
                                p_state.question, Cardinality(reports) + 1, n_inv)
       IN  /\ reports' = reports \cup g.rows
           /\ p_response' = g.response
    /\ p_pc' = "idle"
    /\ p_state' = <<>>
    /\ p_trace' = <<>>
    /\ p_search_failed' = FALSE
    /\ p_hits' = <<>>
    /\ UNCHANGED <<p_raised, n_inv, svars, cvars, ivars>>

Next ==
    \/ \E u \in Users, q \in Questions : invoke(u, q)
    \/ run_retrieve
    \/ run_generate
    \/ run_classify
    \/ report

Spec == Init /\ [][Next]_vars

\* graph.invoke runs the nodes one after another in the caller's thread: a node
\* that can run does run (its collaborators answer or raise)
FairSpec ==
    /\ Spec
    /\ WF_vars(run_retrieve) /\ WF_vars(run_generate) /\ WF_vars(run_classify)

(***************************************************************************)
(* The claims.                                                             *)
(***************************************************************************)

\* a record of each of two tenants is in the collection
TwoTenantsIndexed ==
    Cardinality({written_by[i].user_id : i \in DOMAIN written_by}) >= 2

C2_IdempotentReindex ==
    [][\A d \in DOMAIN ops :
          (ops[d].kind = "reindex" /\ ops[d].pc = "upsert" /\ ops'[d].pc = "done")
          => /\ indexed_ids'[d] = indexed_ids[d]
             /\ PointIds(ops[d].points) = indexed_ids[d]
             /\ last_commit = d => store' = store]_vars

\* a document was indexed twice in a row and the collection holds one record
\* for each of its chunks
C2_Witness ==
    \E d \in DOMAIN ops :
        /\ ops[d].kind = "reindex" /\ ops[d].pc = "done" /\ last_commit = d
        /\ ops[d].result.chunks_indexed = 2
        /\ DOMAIN store = indexed_ids[d]
        /\ Cardinality(DOMAIN store) = 2

StageOrder == <<"retrieve", "generate", "classify">>

\* the stages run so far and the fields written, for each position
C4_Order ==
    /\ p_pc = "retrieve" => p_trace = <<>> /\ DOMAIN p_state = {"user_id", "question"}
    /\ p_pc = "generate" =>
          p_trace = <<"retrieve">> /\ "retrieved" \in DOMAIN p_state
    /\ p_pc = "classify" =>
          /\ p_trace = <<"retrieve", "generate">>
          /\ {"retrieved", "answer"} \subseteq DOMAIN p_state
    /\ p_pc = "END" =>
          /\ p_trace = StageOrder
          /\ {"retrieved", "answer", "label"} \subseteq DOMAIN p_state
    /\ p_pc = "FAILED" => p_raised # ""
    /\ p_pc \in {"idle", "retrieve", "generate", "classify", "END", "FAILED"}

\* C4 (FairSpec): an invocation starts in retrieve, runs retrieve, generate and
\* classify once each in that order, each after the stage before it has written
\* its field, leaves that path only when a collaborator raised, and reaches END
\* unless one does.
C4_PipelineOrder ==
    /\ []C4_Order
    /\ (p_pc = "retrieve") ~> (p_pc = "END" \/ p_raised # "")

C4_Witness == p_pc = "END" /\ p_trace = StageOrder /\ p_raised = ""

\* C5 (Spec): when the search call raised, `retrieved` is the empty sequence,
\* the invocation goes on to generate, only the chat call can still fail it,
\* and at END it has an answer and a label.
C5_SearchFailureDegrades ==
    p_search_failed =>
        /\ p_pc \in {"generate", "classify", "END", "FAILED"}
        /\ "retrieved" \in DOMAIN p_state /\ p_state.retrieved = <<>>
        /\ p_pc = "FAILED" => p_raised = "chat"
        /\ p_pc = "END" => {"answer", "label"} \subseteq DOMAIN p_state

C5_Witness ==
    /\ p_search_failed /\ p_pc = "END" /\ p_state.retrieved = <<>>
    /\ p_state.label = "ANSWERED"

\* C6 (Spec): when the embedding call or the chat call raised, no later stage
\* runs, the state has no answer and no label, the caller gets the failure and
\* no report row is written for the invocation.
C6_AllOrNothing ==
    p_raised # "" =>
        /\ p_raised \in {"embed", "chat"}
        /\ p_pc \in {"FAILED", "idle"}
        /\ p_pc = "FAILED" =>
              /\ p_trace = IF p_raised = "embed" THEN <<"retrieve">>
                           ELSE <<"retrieve", "generate">>
              /\ {"answer", "label"} \cap DOMAIN p_state = {}
        /\ p_pc = "idle" =>
              /\ p_response.inv = n_inv /\ p_response.status = 500
              /\ p_response.body = <<>>
        /\ \A r \in reports : r.inv # n_inv

C6_Witness ==
    /\ p_raised = "chat" /\ p_pc = "idle" /\ p_response.status = 500
    /\ p_response.inv = n_inv

\* C7 (ClassifySpec): classify_node returns the label NO_ANSWER exactly when the
\* state's answer is BRAK_DANYCH character for character, and ANSWERED for every
\* other answer, whatever `retrieved` holds.
C7_ClassifyExactMatch ==
    c_pc = "returned" =>
        /\ DOMAIN c_update = {"label"}
        /\ c_update.label \in {"NO_ANSWER", "ANSWERED"}
        /\ c_update.label = "NO_ANSWER" <=>
              ("answer" \in DOMAIN c_state /\ c_state.answer = BRAK_DANYCH)

C7_Witness ==
    /\ c_pc = "returned" /\ "answer" \in DOMAIN c_state
    /\ c_state.answer = BRAK_DANYCH \o <<" ">>
    /\ "retrieved" \in DOMAIN c_state /\ c_state.retrieved # <<>>
    /\ c_update.label = "ANSWERED"

InvalidParams == s_chunk_size <= 0 \/ s_overlap < 0 \/ s_overlap >= s_chunk_size

\* C8 (SplitSpec): a call with chunk_size <= 0, overlap < 0 or
\* overlap >= chunk_size ends in a ValueError and returns no chunks, whatever
\* the text.
C8_InvalidParametersRaise ==
    (s_pc \in {"loop", "returned", "raised"} /\ InvalidParams)
    => (s_pc = "raised" /\ s_error \in SplitErrors /\ s_chunks = <<>>)

NoWhitespace(s) == \A i \in 1..Len(s) : s[i] \notin Whitespace

\* C9 (SplitSpec): with 0 <= overlap < chunk_size and a non-empty text, every
\* chunk is non-empty and at most chunk_size long, and a text longer than
\* chunk_size without whitespace gives at least two chunks.
C9_ChunkBounds ==
    (s_pc \in {"loop", "returned"} /\ ~InvalidParams /\ s_text # <<>>)
    => /\ \A i \in 1..Len(s_chunks) :
             s_chunks[i] # <<>> /\ Len(s_chunks[i]) <= s_chunk_size
       /\ (s_pc = "returned" /\ Len(s_text) > s_chunk_size /\ NoWhitespace(s_text))
             => Len(s_chunks) >= 2

\* a text with a blank window in the middle, chunked to the end
C9_Witness ==
    /\ s_pc = "returned" /\ ~InvalidParams
    /\ s_text = <<"A", " ", " ", "A">> /\ s_chunk_size = 1 /\ s_overlap = 0
    /\ s_chunks = << <<"A">>, <<"A">> >>

IsScenario ==
    /\ s_text = ScenarioText /\ s_chunk_size = ScenarioChunkSize
    /\ s_overlap = ScenarioOverlap

ChunkLengths == [i \in 1..Len(s_chunks) |-> Len(s_chunks[i])]

\* C10 (SplitSpec), as stated: the 1200 characters with chunk_size 500 and
\* overlap 100 give chunks of 500, 500 and 200 characters.
C10_Scenario_AsStated ==
    (IsScenario /\ s_pc = "returned") => ChunkLengths = <<500, 500, 200>>

\* C10 (SplitSpec), amended: they give chunks of 500, 500 and 400 characters,
\* from the offsets 0, 400 and 800.
C10_Scenario ==
    (IsScenario /\ s_pc = "returned") => ChunkLengths = <<500, 500, 400>>

C10_Witness == IsScenario /\ s_pc = "returned" /\ Len(s_chunks) = 3

\* the end of the window that the next iteration cuts (line 33)
WindowEnd == Min({s_start + s_chunk_size, Len(s_text)})

\* one iteration with valid parameters: it stops exactly when its window
\* reaches the end of the text, and otherwise moves start forward
C11_Iteration ==
    (s_pc = "loop" /\ ~InvalidParams)
    => /\ s_start < Len(s_text)
       /\ (s_pc' = "returned") <=> (WindowEnd >= Len(s_text))
       /\ (s_pc' = "loop") <=> (WindowEnd < Len(s_text))
       /\ s_pc' = "loop" => s_start' > s_start

\* C11 (SplitFairSpec): with 0 <= overlap < chunk_size, every iteration that
\* goes round again leaves start strictly larger, whether or not its window
\* was blank and skipped; no iteration leaves the loop with start unchanged
\* and a window short of the end; the loop returns, and it returns in the
\* first iteration whose window ends at the end of the text.
C11_ProgressAndTermination ==
    /\ [][C11_Iteration]_vars
    /\ [](s_pc = "loop" /\ ~InvalidParams => s_start < Len(s_text))
    /\ (s_pc = "loop" /\ ~InvalidParams) ~> (s_pc = "returned")

\* the window at offset 1 was blank and skipped, and start went on to 2
C11_Witness ==
    /\ s_pc = "loop" /\ ~InvalidParams
    /\ s_text = <<"A", " ", "A">> /\ s_chunk_size = 1 /\ s_overlap = 0
    /\ s_start = 2 /\ s_chunks = << <<"A">> >>

====
